---- MODULE Spec2Model ----
(***************************************************************************)
(* A model of the RAG store of src/src/rag/mod.rs: the persistent RagData  *)
(* (files, vectors), the two derived indices (hnsw, bm25), the snapshot    *)
(* file, and the orchestrator entry points init, load, save, export,       *)
(* add_paths and search.  The async entry points are cut at their .await   *)
(* points: one action runs the code from one suspension point to the next. *)
(***************************************************************************)
EXTENDS Integers, Sequences, FiniteSets, TLC

(***************************************************************************)
(* Bounds of the model.                                                    *)
(***************************************************************************)
\* operations invoked in one behaviour
MaxCalls == 2
\* paths handed to init and add_paths in one behaviour, all calls together
MaxPaths == 2
\* model.max_concurrent_chunks(): texts per embedding request
MaxConcurrentChunks == 2
\* usize::BITS of the target (a 16-bit target keeps ids inside TLC's integers)
UsizeBits == 16

(***************************************************************************)
(* Small helpers on sequences.                                             *)
(***************************************************************************)
Min(a, b) == IF a <= b THEN a ELSE b

Range(s) == {s[i] : i \in 1..Len(s)}

RECURSIVE Concat(_)
Concat(ss) == IF ss = <<>> THEN <<>> ELSE Head(ss) \o Concat(Tail(ss))

\* Iterator::take
Take(s, n) == SubSeq(s, 1, Min(n, Len(s)))

\* Iterator::zip: stops at the shorter of the two
Zip(a, b) == [i \in 1..Min(Len(a), Len(b)) |-> <<a[i], b[i]>>]

SeqsUpTo(S, n) == UNION {[1..k -> S] : k \in 0..n}

(***************************************************************************)
(* VectorID packing (rag/mod.rs 485-496).                                  *)
(***************************************************************************)
HalfBits == UsizeBits \div 2

Pow2(n) == 2 ^ n

RECURSIVE BitOr(_, _, _)
BitOr(a, b, n) ==
    IF n = 0 THEN 0
    ELSE (IF (a % 2 = 1) \/ (b % 2 = 1) THEN 1 ELSE 0)
         + 2 * BitOr(a \div 2, b \div 2, n - 1)

\* combine_vector_id with a shift one bit short of the half word
combine_short_shift(file_index, document_index) ==
    BitOr((file_index * Pow2(HalfBits - 1)) % Pow2(UsizeBits), document_index, UsizeBits)

\* file_index << (usize::BITS / 2) | document_index, in usize arithmetic
combine_vector_id(file_index, document_index) ==
    BitOr((file_index * Pow2(HalfBits)) % Pow2(UsizeBits), document_index, UsizeBits)

\* (value >> (usize::BITS / 2), value & low_mask)
split_vector_id(value) ==
    <<value \div Pow2(HalfBits), value % Pow2(HalfBits)>>

(***************************************************************************)
(* The environment add_paths reads: a small file tree, the path arguments  *)
(* a caller may pass, and the collaborators of crate::utils and            *)
(* rag/loader.rs, rag/splitter.rs that turn a path into chunks.            *)
(***************************************************************************)
FileA == "/d/a.md"

FileB == "/d/b.txt"

DirD == "/d"

\* the same file as FileA, not yet absolutized
DotA == "/d/./a.md"

GlobMd == "/d/**/*.md"

\* a glob that no file of the tree matches
GlobRs == "/d/**/*.rs"

\* a glob whose extension list closes a brace it never opened
BadGlob == "/d/**/*.md}"

\* a path with nothing behind it
Missing == "/nx"

TreeFiles == <<FileA, FileB>>

Paths == {DotA, DirD, GlobMd, GlobRs, BadGlob, Missing}

\* Path::absolutize on the paths above: "." components are removed
absolutize(path) == IF path = DotA THEN FileA ELSE path

\* Path::extension of a file of the tree
extension(path) == IF path = FileA THEN "md" ELSE "txt"

\* parse_glob: the base path and the suffix filter of "base/**/*.ext"
parse_glob(path_str) ==
    CASE path_str = GlobMd  -> [ok |-> TRUE, path |-> DirD, suffixes |-> {"md"}]
      [] path_str = GlobRs  -> [ok |-> TRUE, path |-> DirD, suffixes |-> {"rs"}]
      [] path_str = BadGlob -> [ok |-> FALSE, path |-> DirD, suffixes |-> {}]
      [] OTHER              -> [ok |-> TRUE, path |-> path_str, suffixes |-> {}]

\* list_files: the files at or below entry_path whose extension passes the
\* filter (an empty filter passes all), in walk order; fails on a missing path
list_files(entry_path, suffixes) ==
    IF entry_path = Missing THEN [ok |-> FALSE, files |-> <<>>]
    ELSE [ok |-> TRUE,
          files |-> SelectSeq(TreeFiles, LAMBDA f :
                        /\ (entry_path = DirD \/ entry_path = f)
                        /\ (suffixes = {} \/ extension(f) \in suffixes))]

\* load + split_documents: the chunks (page_content) of a file
split_documents(path) ==
    IF path = FileA THEN <<"a0", "a1">> ELSE <<"b0">>

\* the vector the embedding backend computes for a text
Embedding(text) == <<"emb", text>>

\* what a backend may answer to one request: a vector per text, an error,
\* or one vector too few
Backends == {"ok", "err", "short"}

\* the vectors carried by an answer of the given kind to the request `texts`
Response(kind, texts) ==
    LET good == [i \in 1..Len(texts) |-> Embedding(texts[i])]
    IN  IF kind = "short" THEN SubSeq(good, 1, Len(good) - 1) ELSE good

(***************************************************************************)
(* RagData and its derived indices (rag/mod.rs 398-445).                   *)
(***************************************************************************)
RagFile(path, documents) == [path |-> path, documents |-> documents]

HasKey(map, k) == \E i \in 1..Len(map) : map[i][1] = k

\* IndexMap::insert: a new key goes last, a known key keeps its place and
\* takes the new value
MapInsert(map, kv) ==
    IF HasKey(map, kv[1])
    THEN [i \in 1..Len(map) |-> IF map[i][1] = kv[1] THEN kv ELSE map[i]]
    ELSE Append(map, kv)

RECURSIVE MapExtend(_, _)
MapExtend(map, kvs) ==
    IF kvs = <<>> THEN map ELSE MapExtend(MapInsert(map, Head(kvs)), Tail(kvs))

Keys(map) == {map[i][1] : i \in 1..Len(map)}

\* RagData::new
RagDataNew(model, chunk_size, chunk_overlap) ==
    [model |-> model, chunk_size |-> chunk_size, chunk_overlap |-> chunk_overlap,
     files |-> <<>>, vectors |-> <<>>]

\* the data field while there is no handle
NoData == RagDataNew("", 0, 0)

\* what Rag::config returns: the embedding model, chunk_size, chunk_overlap
\* (chunk_size / 20 by default)
RagConfig == [model |-> "embed-1", chunk_size |-> 1000, chunk_overlap |-> 1000 \div 20]

\* the settings an earlier run has written into the snapshot on disk
SnapshotConfig == [model |-> "embed-1", chunk_size |-> 500, chunk_overlap |-> 500 \div 20]

\* RagData::add
RagDataAdd(data, new_files, ids, embeddings) ==
    [data EXCEPT !.files = @ \o new_files,
                 !.vectors = MapExtend(@, Zip(ids, embeddings))]

\* bincode::serialize_into of a RagData: the fields in declaration order,
\* each sequence and map behind its length, a map as its entries in
\* iteration order
Serialize(d) ==
    [model |-> d.model, chunk_size |-> d.chunk_size, chunk_overlap |-> d.chunk_overlap,
     files_len |-> Len(d.files), files |-> d.files,
     vectors_len |-> Len(d.vectors), entries |-> d.vectors]

\* Deserialize that puts each entry it reads in front of the earlier ones
DeserializeNewestFirst(bytes) ==
    [model |-> bytes.model, chunk_size |-> bytes.chunk_size,
     chunk_overlap |-> bytes.chunk_overlap,
     files |-> SubSeq(bytes.files, 1, bytes.files_len),
     vectors |-> [i \in 1..bytes.vectors_len |->
                     bytes.entries[bytes.vectors_len + 1 - i]]]

\* bincode::deserialize_from: the IndexMap is filled entry by entry
Deserialize(bytes) ==
    [model |-> bytes.model, chunk_size |-> bytes.chunk_size,
     chunk_overlap |-> bytes.chunk_overlap,
     files |-> SubSeq(bytes.files, 1, bytes.files_len),
     vectors |-> MapExtend(<<>>, SubSeq(bytes.entries, 1, bytes.vectors_len))]

\* RagData::build_hnsw: the (vector, id) list handed to parallel_insert
build_hnsw(data) ==
    [i \in 1..Len(data.vectors) |-> <<data.vectors[i][2], data.vectors[i][1]>>]

\* the (id, text) pairs of a file list, file by file and chunk by chunk
EnumerateChunks(fs) ==
    Concat([f \in 1..Len(fs) |->
              [c \in 1..Len(fs[f].documents) |->
                  <<combine_vector_id(f - 1, c - 1), fs[f].documents[c]>>]])

\* RagData::build_bm25: the corpus handed to BM25::new
build_bm25(data) == EnumerateChunks(data.files)

(***************************************************************************)
(* The synchronous pieces of Rag::add_paths and Rag::create_embeddings.    *)
(***************************************************************************)
Msg(kind, i, n) == [kind |-> kind, i |-> i, n |-> n]

\* NextListing for a loop without the check of line 233: a path the store
\* already records is listed again
NextListingKeepsKnown(rest, files) ==
    IF rest = <<>> THEN [kind |-> "end", rest |-> <<>>]
    ELSE LET path_str == absolutize(Head(rest))
         IN  IF ~parse_glob(path_str).ok
             THEN [kind |-> "err", rest |-> rest]
             ELSE [kind |-> "await", rest |-> rest]

\* the head of the listing loop (227-236), run until it reaches the
\* list_files(..).await of a path: known paths are skipped, a bad glob fails
RECURSIVE NextListing(_, _)
NextListing(rest, files) ==
    IF rest = <<>> THEN [kind |-> "end", rest |-> <<>>]
    ELSE LET path_str == absolutize(Head(rest))
         IN  IF \E i \in 1..Len(files) : files[i].path = path_str
             THEN NextListing(Tail(rest), files)
             ELSE IF ~parse_glob(path_str).ok
             THEN [kind |-> "err", rest |-> rest]
             ELSE [kind |-> "await", rest |-> rest]

\* the loading loop (249-269) over the first n listed paths
LoadFiles(file_paths, n) ==
    [i \in 1..n |-> RagFile(file_paths[i], split_documents(file_paths[i]))]

\* the progress messages of the loading loop when n files were loaded
LoadMsgs(total, n) ==
    <<Msg("Loading files", 1, total)>>
        \o [i \in 1..n |-> Msg("Loading files", i, total)]

\* "Convert vectors" (275-283): ids and texts of the files being added
ConvertVectors(rag_files) ==
    LET pairs == EnumerateChunks(rag_files)
    IN  [vector_ids |-> [i \in 1..Len(pairs) |-> pairs[i][1]],
         texts      |-> [i \in 1..Len(pairs) |-> pairs[i][2]]]

\* slice::chunks(size).len()
ChunksLen(texts, size) == (Len(texts) + size - 1) \div size

\* slice::chunks(size).nth(index), index from 0
Chunk(texts, size, index) ==
    SubSeq(texts, index * size + 1, Min((index + 1) * size, Len(texts)))

\* Vec::extend with the new vectors put in front of the ones already there
PrependOutput(output, chunk_output) == chunk_output \o output

\* output.extend(chunk_output) (388)
ExtendOutput(output, chunk_output) == output \o chunk_output

\* create_embeddings up to its first client.embeddings(..).await (370-386):
\* `run` holds the locals, run.texts the input; sent and recv are the
\* requests issued and the kinds of answers received so far
EmbedBegin(run, size) ==
    [run EXCEPT !.output = <<>>,
                !.batch = 0,
                !.sent = IF ChunksLen(run.texts, size) = 0 THEN <<>>
                         ELSE <<Chunk(run.texts, size, 0)>>,
                !.recv = <<>>]

\* EmbedReceive for a loop that logs a failed request and goes on with the
\* next chunk
EmbedReceiveIgnoresErr(run, kind, size) ==
    LET batch == run.batch + 1
        chunk_output == IF kind = "err" THEN <<>>
                        ELSE Response(kind, Chunk(run.texts, size, run.batch))
    IN  [run EXCEPT !.recv = Append(@, kind),
                    !.output = ExtendOutput(@, chunk_output),
                    !.batch = batch,
                    !.sent = IF batch < ChunksLen(run.texts, size)
                             THEN Append(@, Chunk(run.texts, size, batch))
                             ELSE @]

\* the answer to the request of chunk run.batch arrives (383-393): an error
\* ends the run, anything else is appended to output and the loop goes on
\* to the request of the next chunk, if there is one
EmbedReceive(run, kind, size) ==
    IF kind = "err" THEN [run EXCEPT !.recv = Append(@, kind)]
    ELSE LET batch == run.batch + 1
             chunk_output == Response(kind, Chunk(run.texts, size, run.batch))
         IN  [run EXCEPT !.recv = Append(@, kind),
                         !.output = ExtendOutput(@, chunk_output),
                         !.batch = batch,
                         !.sent = IF batch < ChunksLen(run.texts, size)
                                  THEN Append(@, Chunk(run.texts, size, batch))
                                  ELSE @]

\* Commit without line 292: the data grow, the vector index stays as built
CommitStaleHnsw(store, rag_files, vector_ids, embeddings) ==
    [data |-> RagDataAdd(store.data, rag_files, vector_ids, embeddings),
     hnsw |-> store.hnsw, bm25 |-> store.bm25]

\* the store after lines 290-292: RagData::add, then the index rebuild
Commit(store, rag_files, vector_ids, embeddings) ==
    LET d == RagDataAdd(store.data, rag_files, vector_ids, embeddings)
    IN  [data |-> d, hnsw |-> build_hnsw(d), bm25 |-> store.bm25]

\* Rag::create (88-103): both indices are derived from the data
Create(d) == [data |-> d, hnsw |-> build_hnsw(d), bm25 |-> build_bm25(d)]

\* Rag::is_temp
TEMP_RAG_NAME == "temp"

is_temp(nm) == nm = TEMP_RAG_NAME

\* a snapshot an earlier run of init on FileA has left on disk
OldSnapshot ==
    LET fs == LoadFiles(<<FileA>>, 1)
        cv == ConvertVectors(fs)
        new == RagDataNew(SnapshotConfig.model, SnapshotConfig.chunk_size,
                          SnapshotConfig.chunk_overlap)
    IN  RagDataAdd(new, fs, cv.vector_ids,
                   [i \in 1..Len(cv.texts) |-> Embedding(cv.texts[i])])

(***************************************************************************)
(* Retrieval: vector search, text search and reciprocal rank fusion        *)
(* (rag/mod.rs 297-363 and 555-579).                                       *)
(***************************************************************************)
\* the queries a caller may pass, with what the splitter and the BM25
\* tokenizer make of them
Queries == {"a0", "a0 b0", "zz"}

\* RecursiveCharacterTextSplitter::split_text of a query
split_text(query) ==
    IF query = "a0 b0" THEN <<"a0", "b0">> ELSE <<query>>

\* the word tokens of a query
Tokens(query) == IF query = "a0 b0" THEN {"a0", "b0"} ELSE {query}

TopKs == {1, 2}

\* min_score arguments and distances, in tenths
MinScores == {0, 5}

\* DistCosine between two embeddings: 0 for the same direction, 1.0 for an
\* unrelated one
Distance(u, v) == IF u = v THEN 0 ELSE 10

\* the items of the <<key, item>> pairs s by ascending key, equal keys in
\* the order of s (a stable sort, as slice::sort_by is)
RECURSIVE SortPairs(_)
SortPairs(s) ==
    IF s = <<>> THEN <<>>
    ELSE LET rest == SortPairs(Tail(s))
             x == Head(s)
             before == SelectSeq(rest, LAMBDA y : y[1] < x[1])
             after == SelectSeq(rest, LAMBDA y : y[1] >= x[1])
         IN  before \o <<x>> \o after

SortByKey(s) == LET t == SortPairs(s) IN [i \in 1..Len(t) |-> t[i][2]]

\* Hnsw::parallel_search for one query vector: the knbn nearest of the
\* inserted points as [d_id, distance], nearest first
Neighbours(index, v, knbn) ==
    LET hits == [i \in 1..Len(index) |->
                    [d_id |-> index[i][2], distance |-> Distance(v, index[i][1])]]
    IN  Take(SortByKey([i \in 1..Len(hits) |-> <<hits[i].distance, hits[i]>>]), knbn)

\* the hits that pass `if v.distance < min_score { return None }` (344-346),
\* list after list
KeptHits(lists, min_score) ==
    Concat([i \in 1..Len(lists) |->
              SelectSeq(lists[i], LAMBDA h : ~(h.distance < min_score))])

\* lines 337-351: the d_id of each hit that passes the filter
FilterHits(lists, min_score) ==
    LET kept == KeptHits(lists, min_score)
    IN  [j \in 1..Len(kept) |-> kept[j].d_id]

\* the cosine similarity of a hit: DistCosine is 1 - cos, here in tenths
Similarity(h) == 10 - h.distance

\* BM25::search: the ids of the entries holding a query token (score 1.0
\* here), no lower than min_score, the first top_k of them
bm25_search(corpus, query, top_k, min_score) ==
    LET hits == SelectSeq(corpus, LAMBDA e : e[2] \in Tokens(query) /\ 10 >= min_score)
    IN  Take([i \in 1..Len(hits) |-> hits[i][1]], top_k)

\* the product (rrf_k + 1) * ... * (rrf_k + n): scores are kept as integer
\* multiples of its inverse
RECURSIVE ScoreScale(_, _)
ScoreScale(rrf_k, n) == IF n = 0 THEN 1 ELSE (rrf_k + n) * ScoreScale(rrf_k, n - 1)

\* ListScore that counts an id only where it stands first in the list
RECURSIVE ListScoreFirstOnly(_, _, _, _, _)
ListScoreFirstOnly(ids, id, rrf_k, weight, scale) ==
    IF ids = <<>> THEN 0
    ELSE LET before == ListScoreFirstOnly(SubSeq(ids, 1, Len(ids) - 1), id, rrf_k,
                                          weight, scale)
         IN  IF before > 0 THEN before
             ELSE IF ids[Len(ids)] = id THEN weight * (scale \div (rrf_k + Len(ids)))
             ELSE 0

\* the score one list gives to an id (564-570)
RECURSIVE ListScore(_, _, _, _, _)
ListScore(ids, id, rrf_k, weight, scale) ==
    IF ids = <<>> THEN 0
    ELSE ListScore(SubSeq(ids, 1, Len(ids) - 1), id, rrf_k, weight, scale)
         + (IF ids[Len(ids)] = id THEN weight * (scale \div (rrf_k + Len(ids))) ELSE 0)

\* the iteration orders a HashMap holding the keys S may have
Orders(S) ==
    {o \in [1..Cardinality(S) -> S] : \A i, j \in 1..Cardinality(S) : o[i] = o[j] => i = j}

\* reciprocal_rank_fusion; `order` is the iteration order of the HashMap
reciprocal_rank_fusion(vector_search_ids, text_search_ids, weight_v, weight_t, top_k, order) ==
    LET vector_search_weight == weight_v
        text_search_weight == weight_t
        rrf_k == top_k * 2
        scale == ScoreScale(rrf_k, Len(vector_search_ids) + Len(text_search_ids))
        score(id) ==
            ListScore(vector_search_ids, id, rrf_k, vector_search_weight, scale)
            + ListScore(text_search_ids, id, rrf_k, text_search_weight, scale)
        sorted_items == SortByKey([i \in 1..Len(order) |-> <<0 - score(order[i]), order[i]>>])
    IN  Take(sorted_items, top_k)

\* Materialize that gives up at the first id that does not resolve
MaterializeUntilGap(ids, files) ==
    LET ok(id) ==
            LET fc == split_vector_id(id)
            IN  /\ fc[1] < Len(files)
                /\ fc[2] < Len(files[fc[1] + 1].documents)
        gaps == {i \in 1..Len(ids) : ~ok(ids[i])}
        kept == IF gaps = {} THEN ids
                ELSE SubSeq(ids, 1, (CHOOSE i \in gaps : \A j \in gaps : i <= j) - 1)
    IN  [i \in 1..Len(kept) |->
            LET fc == split_vector_id(kept[i])
            IN  files[fc[1] + 1].documents[fc[2] + 1]]

\* lines 311-319: the chunk behind each fused id, unresolvable ids skipped
Materialize(ids, files) ==
    LET ok(id) ==
            LET fc == split_vector_id(id)
            IN  /\ fc[1] < Len(files)
                /\ fc[2] < Len(files[fc[1] + 1].documents)
        kept == SelectSeq(ids, ok)
    IN  [i \in 1..Len(kept) |->
            LET fc == split_vector_id(kept[i])
            IN  files[fc[1] + 1].documents[fc[2] + 1]]

\* Rag::vector_search after its embeddings have arrived
vector_search(index, embeddings, top_k, min_score) ==
    FilterHits([i \in 1..Len(embeddings) |-> Neighbours(index, embeddings[i], top_k)],
               min_score)

\* [String]::join("\n\n")
RECURSIVE Join(_)
Join(strs) ==
    IF strs = <<>> THEN ""
    ELSE IF Len(strs) = 1 THEN strs[1]
    ELSE strs[1] \o "\n\n" \o Join(Tail(strs))

(***************************************************************************)
(* State.                                                                  *)
(***************************************************************************)
VARIABLES
    name,      \* Rag.name of the handle, "none" while there is no handle
    data,      \* Rag.data: [files, vectors]
    hnsw,      \* Rag.hnsw: the (vector, id) pairs the index was built from
    bm25,      \* Rag.bm25: the (id, text) corpus the index was built from
    disk,      \* the snapshot file at save_path: whether it exists, its RagData
    writes,    \* how often the snapshot file was created
    op,        \* the entry point running, or the last one that ran
    pc,        \* where it stands
    ap,        \* the locals of the add_paths future in flight
    sq,        \* the arguments and locals of the search future in flight
    out,       \* the String a successful search returned
    pre,       \* data, hnsw and bm25 as they were when the call began
    aborted,   \* the AbortSignal flag of the call
    winner,    \* the branch of tokio::select! that completed
    ret,       \* the value returned
    msgs,      \* what was sent on progress_tx, in order
    calls,     \* operations invoked so far
    used,      \* paths handed to init and add_paths so far
    arg1,      \* p when the call in flight is add_paths([p])
    lastOk,    \* p when the previous operation was add_paths([p]) = Ok
    probe,     \* a pure function under test: its inputs and what it returned
    spinner    \* the spinner task of init and search and its stop channel

vars == <<name, data, hnsw, bm25, disk, writes, op, pc, ap, sq, out, pre, aborted,
          winner, ret, msgs, calls, used, arg1, lastOk, probe, spinner>>

storeVars == <<data, hnsw, bm25>>

Store == [data |-> data, hnsw |-> hnsw, bm25 |-> bm25]

NoLocals ==
    [rest |-> <<>>, file_paths |-> <<>>, rag_files |-> <<>>,
     vector_ids |-> <<>>, texts |-> <<>>, output |-> <<>>, batch |-> 0,
     sent |-> <<>>, recv |-> <<>>, added |-> FALSE]

NoSearch ==
    [query |-> "", top_k |-> 0, min_score_vector |-> 0, min_score_text |-> 0,
     texts |-> <<>>, output |-> <<>>, batch |-> 0, sent |-> <<>>, recv |-> <<>>,
     text_ids |-> <<>>, hits |-> <<>>, result |-> <<>>]

Names == {TEMP_RAG_NAME, "docs"}

\* the snapshot file: absent, or holding a serialized RagData
NoFile == [exists |-> FALSE, bytes |-> Serialize(NoData)]

File(d) == [exists |-> TRUE, bytes |-> Serialize(d)]

PathLists == SeqsUpTo(Paths, MaxPaths)

\* no function is under test
NoProbe ==
    [file_index |-> 0, document_index |-> 0, id |-> 0, split |-> <<0, 0>>,
     step |-> "off"]

\* no handle, no call in flight; the snapshot file may be there or not
NoHandle ==
    /\ name = "none"
    /\ data = NoData
    /\ hnsw = <<>>
    /\ bm25 = <<>>
    /\ disk \in {NoFile, File(OldSnapshot)}
    /\ writes = 0
    /\ op = "none"
    /\ pc = "norag"
    /\ ap = NoLocals
    /\ sq = NoSearch
    /\ out = ""
    /\ pre = Create(NoData)
    /\ aborted = FALSE
    /\ winner = "none"
    /\ ret = "none"
    /\ msgs = <<>>
    /\ calls = 0
    /\ used = 0
    /\ arg1 = "none"
    /\ lastOk = "none"
    /\ spinner = "none"

Init ==
    /\ NoHandle
    /\ probe = NoProbe

(***************************************************************************)
(* add_paths, from one suspension point to the next.                       *)
(***************************************************************************)
\* Returns for an add_paths that pushes each loaded file into self.data.files
\* at once instead of collecting them in rag_files
ReturnsKeepingFiles(r, locals, m) ==
    /\ pc' = "returned"
    /\ ret' = r
    /\ ap' = locals
    /\ msgs' = m
    /\ data' = [data EXCEPT !.files = @ \o locals.rag_files]
    /\ UNCHANGED <<hnsw, bm25>>

\* the future completes with r; its locals are what they were at that point
Returns(r, locals, m) ==
    /\ pc' = "returned"
    /\ ret' = r
    /\ ap' = locals
    /\ msgs' = m
    /\ UNCHANGED storeVars

\* Commits for an add_paths that announces the index build before the last
\* progress message of create_embeddings is out
CommitsAnnouncedEarly(locals, m) ==
    LET s == Commit(Store, locals.rag_files, locals.vector_ids, locals.output)
    IN  /\ pc' = "returned"
        /\ ret' = "Ok"
        /\ ap' = [locals EXCEPT !.added = TRUE]
        /\ msgs' = SubSeq(m, 1, Len(m) - 1)
                       \o <<Msg("Building vector store", 0, 0), m[Len(m)]>>
        /\ data' = s.data
        /\ hnsw' = s.hnsw
        /\ bm25' = s.bm25

\* lines 290-294
Commits(locals, m) ==
    LET s == Commit(Store, locals.rag_files, locals.vector_ids, locals.output)
    IN  /\ pc' = "returned"
        /\ ret' = "Ok"
        /\ ap' = [locals EXCEPT !.added = TRUE]
        /\ msgs' = Append(m, Msg("Building vector store", 0, 0))
        /\ data' = s.data
        /\ hnsw' = s.hnsw
        /\ bm25' = s.bm25

\* LoadPhase for an add_paths that appends the loaded files to self.data
\* before it awaits their embeddings
LoadPhaseEagerAdd(locals, m) ==
    \E failAt \in 0..Len(locals.file_paths) :
        LET total == Len(locals.file_paths)
            rag_files == LoadFiles(locals.file_paths, failAt)
            m2 == m \o LoadMsgs(total, failAt)
            cv == ConvertVectors(rag_files)
            n == ChunksLen(cv.texts, MaxConcurrentChunks)
            l2 == [locals EXCEPT !.rag_files = rag_files]
            l3 == EmbedBegin([l2 EXCEPT !.vector_ids = cv.vector_ids,
                                        !.texts = cv.texts], MaxConcurrentChunks)
            m3 == Append(m2, Msg("Creating embeddings", 1, n))
        IN  IF failAt < total THEN Returns("Failed to load file", l2, m2)
            ELSE IF rag_files = <<>> THEN Returns("Ok", l2, m2)
            ELSE IF n = 0 THEN Commits(l3, m3)
            ELSE /\ pc' = "embed"
                 /\ ap' = l3
                 /\ msgs' = m3
                 /\ data' = [data EXCEPT !.files = @ \o rag_files]
                 /\ UNCHANGED <<hnsw, bm25, ret>>

\* lines 245-288, up to the first client.embeddings(..).await: the loader
\* fails at file number failAt (from 0), or not at all (failAt = total)
LoadPhase(locals, m) ==
    \E failAt \in 0..Len(locals.file_paths) :
        LET total == Len(locals.file_paths)
            rag_files == LoadFiles(locals.file_paths, failAt)
            m2 == m \o LoadMsgs(total, failAt)
            cv == ConvertVectors(rag_files)
            n == ChunksLen(cv.texts, MaxConcurrentChunks)
            l2 == [locals EXCEPT !.rag_files = rag_files]
            l3 == EmbedBegin([l2 EXCEPT !.vector_ids = cv.vector_ids,
                                        !.texts = cv.texts], MaxConcurrentChunks)
            m3 == Append(m2, Msg("Creating embeddings", 1, n))
        IN  IF failAt < total THEN Returns("Failed to load file", l2, m2)
            ELSE IF rag_files = <<>> THEN Returns("Ok", l2, m2)
            ELSE IF n = 0 THEN Commits(l3, m3)
            ELSE /\ pc' = "embed"
                 /\ ap' = l3
                 /\ msgs' = m3
                 /\ UNCHANGED <<storeVars, ret>>

\* the listing loop from the path list `rest` on
Listing(rest, locals, m) ==
    LET nl == NextListing(rest, data.files)
        l2 == [locals EXCEPT !.rest = nl.rest]
    IN  IF nl.kind = "err" THEN Returns("Invalid path", l2, m)
        ELSE IF nl.kind = "end" THEN LoadPhase(l2, m)
        ELSE /\ pc' = "list"
             /\ ap' = l2
             /\ msgs' = m
             /\ UNCHANGED <<storeVars, ret>>

\* add_paths is called on an idle handle; the future is not polled yet
CallAddPaths(paths) ==
    /\ pc = "idle"
    /\ calls < MaxCalls
    /\ used + Len(paths) <= MaxPaths
    /\ calls' = calls + 1
    /\ used' = used + Len(paths)
    /\ op' = "add_paths"
    /\ pc' = "start"
    /\ ap' = [NoLocals EXCEPT !.rest = paths]
    /\ pre' = Store
    /\ arg1' = IF Len(paths) = 1 THEN paths[1] ELSE "none"
    /\ ret' = "none"
    /\ msgs' = <<>>
    /\ UNCHANGED <<name, storeVars, disk, writes, aborted, winner, lastOk,
                   sq, out>>
    /\ UNCHANGED probe
    /\ UNCHANGED spinner

\* first poll of add_paths: lines 224-226, then the listing loop
StartAddPaths ==
    /\ pc = "start"
    /\ op \in {"init", "add_paths"}
    /\ Listing(ap.rest, ap, <<Msg("Listing paths", 0, 0)>>)
    /\ UNCHANGED <<name, disk, writes, op, pre, aborted, winner, calls, arg1,
                   lastOk, used,
                   sq, out>>
    /\ UNCHANGED probe
    /\ UNCHANGED spinner

\* list_files(..).await of the path at the head of `rest` completes (242)
ListResume ==
    /\ pc = "list"
    /\ LET g == parse_glob(absolutize(Head(ap.rest)))
           r == list_files(g.path, g.suffixes)
           l2 == [ap EXCEPT !.file_paths = @ \o r.files]
       IN  IF r.ok THEN Listing(Tail(ap.rest), l2, msgs)
           ELSE Returns("Not found", ap, msgs)
    /\ UNCHANGED <<name, disk, writes, op, pre, aborted, winner, calls, arg1,
                   lastOk, used,
                   sq, out>>
    /\ UNCHANGED probe
    /\ UNCHANGED spinner

\* client.embeddings(chunk_data).await of batch ap.batch completes (383-392)
EmbedResume(kind) ==
    /\ pc = "embed"
    /\ LET n == ChunksLen(ap.texts, MaxConcurrentChunks)
           l2 == EmbedReceive(ap, kind, MaxConcurrentChunks)
           m2 == Append(msgs, Msg("Creating embeddings", ap.batch + 1, n))
       IN  IF kind = "err" THEN Returns("Failed to create embedding", l2, msgs)
           ELSE IF l2.batch < n
           THEN /\ pc' = "embed"
                /\ ap' = l2
                /\ msgs' = m2
                /\ UNCHANGED <<storeVars, ret>>
           ELSE Commits(l2, m2)
    /\ UNCHANGED <<name, disk, writes, op, pre, aborted, winner, calls, arg1,
                   lastOk, used,
                   sq, out>>
    /\ UNCHANGED probe
    /\ UNCHANGED spinner

\* the caller of add_paths takes the result; the future and its locals go
CompleteAddPaths ==
    /\ pc = "returned"
    /\ op = "add_paths"
    /\ pc' = "idle"
    /\ ap' = NoLocals
    /\ msgs' = <<>>
    /\ pre' = Store
    /\ lastOk' = IF ret = "Ok" THEN arg1 ELSE "none"
    /\ arg1' = "none"
    /\ ret' = "none"
    /\ op' = "none"
    /\ UNCHANGED <<name, storeVars, disk, writes, aborted, winner, calls,
                   used, sq, out>>
    /\ UNCHANGED probe
    /\ UNCHANGED spinner

(***************************************************************************)
(* Rag::init, Rag::load, Rag::save, Rag::export and the release of the     *)
(* handle.                                                                 *)
(***************************************************************************)
\* what a branch of the select! of init hands to the caller (63-72)
InitAbortBranch == "Aborted!"

\* Rag::save (167-173): the snapshot holds self.data; io_ok is whether the
\* file could be created
SaveTo(d, io_ok) ==
    IF io_ok THEN [disk |-> File(d), writes |-> writes + 1, ret |-> "Ok"]
    ELSE [disk |-> disk, writes |-> writes, ret |-> "Failed to save rag"]

\* init up to the select! (53-62): config, RagData::new, create, run_spinner
CallInit(nm, paths, config_ok) ==
    /\ pc = "norag"
    /\ calls < MaxCalls
    /\ paths # <<>>
    /\ used + Len(paths) <= MaxPaths
    /\ calls' = calls + 1
    /\ used' = used + Len(paths)
    /\ op' = "init"
    /\ ap' = [NoLocals EXCEPT !.rest = paths]
    /\ arg1' = IF Len(paths) = 1 THEN paths[1] ELSE "none"
    /\ msgs' = <<>>
    /\ IF config_ok
       THEN LET s == Create(RagDataNew(RagConfig.model, RagConfig.chunk_size,
                                       RagConfig.chunk_overlap))
            IN  /\ name' = nm
                /\ data' = s.data
                /\ hnsw' = s.hnsw
                /\ bm25' = s.bm25
                /\ pre' = s
                /\ pc' = "start"
                /\ ret' = "none"
                /\ spinner' = "spinning"
       ELSE /\ pc' = "done"
            /\ ret' = "No available embedding model"
            /\ UNCHANGED <<name, storeVars, pre, spinner>>
    /\ UNCHANGED <<disk, writes, aborted, winner, lastOk,
                   sq, out>>
    /\ UNCHANGED probe

\* InitFinish for an init that drops the `ret?` of line 66 and goes on to
\* save whatever add_paths returned
InitFinishIgnoresRet ==
    /\ pc = "returned"
    /\ op = "init"
    /\ winner' = "work"
    /\ pc' = "done"
    /\ spinner' = "stopped"
    /\ IF ~is_temp(name)
       THEN \E io_ok \in BOOLEAN :
                LET s == SaveTo(data, io_ok)
                IN  /\ disk' = s.disk
                    /\ writes' = s.writes
                    /\ ret' = s.ret
       ELSE UNCHANGED <<disk, writes, ret>>
    /\ UNCHANGED <<name, storeVars, op, ap, pre, aborted, msgs, calls, arg1,
                   lastOk, used,
                   sq, out>>
    /\ UNCHANGED probe

\* the add_paths branch of the select! completes (64-67), then 73-77
InitFinish ==
    /\ pc = "returned"
    /\ op = "init"
    /\ winner' = "work"
    /\ pc' = "done"
    /\ spinner' = "stopped"
    /\ IF ret = "Ok" /\ ~is_temp(name)
       THEN \E io_ok \in BOOLEAN :
                LET s == SaveTo(data, io_ok)
                IN  /\ disk' = s.disk
                    /\ writes' = s.writes
                    /\ ret' = s.ret
       ELSE UNCHANGED <<disk, writes, ret>>
    /\ UNCHANGED <<name, storeVars, op, ap, pre, aborted, msgs, calls, arg1,
                   lastOk, used,
                   sq, out>>
    /\ UNCHANGED probe

\* the caller of init takes the result: a handle, or nothing
CompleteInit ==
    /\ pc = "done"
    /\ op = "init"
    /\ IF ret = "Ok"
       THEN /\ pc' = "idle"
            /\ pre' = Store
            /\ UNCHANGED <<name, storeVars>>
       ELSE /\ pc' = "norag"
            /\ name' = "none"
            /\ data' = NoData
            /\ hnsw' = <<>>
            /\ bm25' = <<>>
            /\ pre' = Create(NoData)
    /\ lastOk' = IF ret = "Ok" THEN arg1 ELSE "none"
    /\ ap' = NoLocals
    /\ msgs' = <<>>
    /\ arg1' = "none"
    /\ ret' = "none"
    /\ winner' = "none"
    /\ spinner' = "none"
    /\ aborted' = FALSE
    /\ op' = "none"
    /\ UNCHANGED <<disk, writes, calls, used,
                   sq, out>>
    /\ UNCHANGED probe

\* Rag::load (80-86): open, deserialize, create; model_ok is whether the
\* model named in the snapshot is among the configured ones
CallLoad(nm, model_ok) ==
    /\ pc = "norag"
    /\ calls < MaxCalls
    /\ calls' = calls + 1
    /\ IF disk.exists /\ model_ok
       THEN LET s == Create(Deserialize(disk.bytes))
            IN  /\ name' = nm
                /\ data' = s.data
                /\ hnsw' = s.hnsw
                /\ bm25' = s.bm25
                /\ pre' = s
                /\ pc' = "idle"
                /\ op' = "load"
       ELSE UNCHANGED <<name, storeVars, pre, pc, op>>
    /\ UNCHANGED <<disk, writes, ap, aborted, winner, ret, msgs, arg1,
                   lastOk, used,
                   sq, out>>
    /\ UNCHANGED probe
    /\ UNCHANGED spinner

\* Rag::save called on the handle
Save(io_ok) ==
    /\ pc = "idle"
    /\ calls < MaxCalls
    /\ calls' = calls + 1
    /\ LET s == SaveTo(data, io_ok)
       IN  /\ disk' = s.disk
           /\ writes' = s.writes
    /\ lastOk' = "none"
    /\ UNCHANGED <<name, storeVars, op, pc, ap, pre, aborted, winner, ret,
                   msgs, arg1, used,
                   sq, out>>
    /\ UNCHANGED probe
    /\ UNCHANGED spinner

\* Rag::export (175-187): reads the handle, writes nothing
Export ==
    /\ pc = "idle"
    /\ calls < MaxCalls
    /\ calls' = calls + 1
    /\ lastOk' = "none"
    /\ UNCHANGED <<name, storeVars, disk, writes, op, pc, ap, pre, aborted,
                   winner, ret, msgs, arg1, used,
                   sq, out>>
    /\ UNCHANGED probe
    /\ UNCHANGED spinner

\* the handle is released
Drop ==
    /\ pc = "idle"
    /\ calls < MaxCalls
    /\ pc' = "norag"
    /\ name' = "none"
    /\ data' = NoData
    /\ hnsw' = <<>>
    /\ bm25' = <<>>
    /\ pre' = Create(NoData)
    /\ lastOk' = "none"
    /\ UNCHANGED <<disk, writes, op, ap, aborted, winner, ret, msgs, calls,
                   arg1, used,
                   sq, out>>
    /\ UNCHANGED probe
    /\ UNCHANGED spinner

(***************************************************************************)
(* Rag::search and Rag::hybird_search.                                     *)
(***************************************************************************)
\* an abort branch that lacks its bail!: the call goes on to return Ok
SearchAbortFallsThrough == "Ok"

\* what the abort branch of the select! of search hands to the caller
SearchAbortBranch == "Aborted!"

\* what the abort branch of the select! of init does to the stop channel
\* before it bails (69): it sends the stop
InitAbortSpinner == "stopped"

\* what the abort branch of the select! of search does to the stop channel
\* (210-212): it bails with the sender unused, which drops it
SearchAbortSpinner == "dropped"

\* search up to its select! (205): run_spinner, the work future not polled
CallSearch(query, top_k, min_score_vector, min_score_text) ==
    /\ pc = "idle"
    /\ calls < MaxCalls
    /\ calls' = calls + 1
    /\ op' = "search"
    /\ pc' = "start"
    /\ sq' = [NoSearch EXCEPT !.query = query, !.top_k = top_k,
                              !.min_score_vector = min_score_vector,
                              !.min_score_text = min_score_text]
    /\ pre' = Store
    /\ ret' = "none"
    /\ spinner' = "spinning"
    /\ UNCHANGED <<name, storeVars, disk, writes, ap, out, aborted, winner,
                   msgs, used, arg1, lastOk>>
    /\ UNCHANGED probe

\* hybird_search from the arrival of the last embeddings on (308-320), with
\* `order` the iteration order of the HashMap of the fusion
HybridResult(locals, order) ==
    LET vector_search_ids ==
            vector_search(hnsw, locals.output, locals.top_k, locals.min_score_vector)
        ids == reciprocal_rank_fusion(vector_search_ids, locals.text_ids, 1, 1,
                                      locals.top_k, order)
    IN  Materialize(ids, data.files)

\* the HNSW hits whose ids vector_search returns (337-351)
VectorHits(locals) ==
    KeptHits([i \in 1..Len(locals.output) |->
                 Neighbours(hnsw, locals.output[i], locals.top_k)],
             locals.min_score_vector)

\* the keys of the HashMap of the fusion
FusionKeys(locals) ==
    Range(vector_search(hnsw, locals.output, locals.top_k, locals.min_score_vector))
        \cup Range(locals.text_ids)

\* the work branch of the select! of search completes with Ok (207-216)
SearchReturns(locals) ==
    \E order \in Orders(FusionKeys(locals)) :
        LET result == HybridResult(locals, order)
        IN  /\ pc' = "done"
            /\ winner' = "work"
            /\ ret' = "Ok"
            /\ spinner' = "stopped"
            /\ sq' = [locals EXCEPT !.result = result, !.hits = VectorHits(locals)]
            /\ out' = Join(result)

\* StartSearch for a text_search that first brings self.bm25 up to date with
\* self.data
StartSearchRebuildsBm25 ==
    /\ pc = "start"
    /\ op = "search"
    /\ bm25' = build_bm25(data)
    /\ LET texts == split_text(sq.query)
           l2 == EmbedBegin([sq EXCEPT !.texts = texts,
                                       !.text_ids = bm25_search(bm25', sq.query,
                                                        sq.top_k, sq.min_score_text)],
                            MaxConcurrentChunks)
       IN  /\ pc' = "s_embed"
           /\ sq' = l2
           /\ UNCHANGED <<winner, ret, out>>
    /\ UNCHANGED <<name, data, hnsw, disk, writes, op, ap, pre, aborted, msgs,
                   calls, used, arg1, lastOk>>
    /\ UNCHANGED probe
    /\ UNCHANGED spinner

\* first poll of hybird_search: join! polls vector_search up to its first
\* client.embeddings(..).await (329-336, 370-386) and text_search to its end
StartSearch ==
    /\ pc = "start"
    /\ op = "search"
    /\ LET texts == split_text(sq.query)
           l2 == EmbedBegin([sq EXCEPT !.texts = texts,
                                       !.text_ids = bm25_search(bm25, sq.query,
                                                        sq.top_k, sq.min_score_text)],
                            MaxConcurrentChunks)
       IN  IF ChunksLen(texts, MaxConcurrentChunks) = 0
           THEN SearchReturns(l2)
           ELSE /\ pc' = "s_embed"
                /\ sq' = l2
                /\ UNCHANGED <<winner, ret, out, spinner>>
    /\ UNCHANGED <<name, storeVars, disk, writes, op, ap, pre, aborted, msgs,
                   calls, used, arg1, lastOk>>
    /\ UNCHANGED probe

\* client.embeddings(..).await of batch sq.batch of the query completes
SearchEmbedResume(kind) ==
    /\ pc = "s_embed"
    /\ LET n == ChunksLen(sq.texts, MaxConcurrentChunks)
           l2 == EmbedReceive(sq, kind, MaxConcurrentChunks)
       IN  IF kind = "err"
           THEN /\ pc' = "done"
                /\ winner' = "work"
                /\ ret' = "Failed to create embedding"
                /\ spinner' = "stopped"
                /\ sq' = l2
                /\ UNCHANGED out
           ELSE IF l2.batch < n
           THEN /\ sq' = l2
                /\ UNCHANGED <<pc, winner, ret, out, spinner>>
           ELSE SearchReturns(l2)
    /\ UNCHANGED <<name, storeVars, disk, writes, op, ap, pre, aborted, msgs,
                   calls, used, arg1, lastOk>>
    /\ UNCHANGED probe

\* the caller of search takes the result
CompleteSearch ==
    /\ pc = "done"
    /\ op = "search"
    /\ pc' = "idle"
    /\ op' = "none"
    /\ sq' = NoSearch
    /\ out' = ""
    /\ ret' = "none"
    /\ winner' = "none"
    /\ spinner' = "none"
    /\ aborted' = FALSE
    /\ lastOk' = "none"
    /\ pre' = Store
    /\ UNCHANGED <<name, storeVars, disk, writes, ap, msgs, calls, used, arg1>>
    /\ UNCHANGED probe

(***************************************************************************)
(* Cancellation: the AbortSignal flag and the abort branch of select!.     *)
(***************************************************************************)
\* the points at which the raced future of the call is suspended
Suspended == pc \in {"start", "list", "embed", "s_embed"}

\* the user sets the flag of the AbortSignal while the call runs
SetAbort ==
    /\ op \in {"init", "search"}
    /\ Suspended
    /\ ~aborted
    /\ aborted' = TRUE
    /\ UNCHANGED <<name, storeVars, disk, writes, op, pc, ap, sq, out, pre,
                   winner, ret, msgs, calls, used, arg1, lastOk>>
    /\ UNCHANGED probe
    /\ UNCHANGED spinner

\* watch_abort_signal completes while the work is pending: the work future
\* is dropped and the abort branch runs
AbortWins ==
    /\ op \in {"init", "search"}
    /\ Suspended
    /\ aborted
    /\ winner' = "abort"
    /\ pc' = "done"
    /\ ret' = IF op = "init" THEN InitAbortBranch ELSE SearchAbortBranch
    /\ spinner' = IF op = "init" THEN InitAbortSpinner ELSE SearchAbortSpinner
    /\ ap' = NoLocals
    /\ sq' = NoSearch
    /\ UNCHANGED <<name, storeVars, disk, writes, op, out, pre, aborted, msgs,
                   calls, used, arg1, lastOk>>
    /\ UNCHANGED probe

Next ==
    \/ \E nm \in Names, paths \in PathLists, config_ok \in BOOLEAN :
           CallInit(nm, paths, config_ok)
    \/ \E nm \in Names, model_ok \in BOOLEAN : CallLoad(nm, model_ok)
    \/ \E paths \in PathLists : CallAddPaths(paths)
    \/ StartAddPaths
    \/ ListResume
    \/ \E kind \in Backends : EmbedResume(kind)
    \/ CompleteAddPaths
    \/ InitFinish
    \/ CompleteInit
    \/ \E io_ok \in BOOLEAN : Save(io_ok)
    \/ Export
    \/ Drop
    \/ \E query \in Queries, top_k \in TopKs, mv \in MinScores, mt \in MinScores :
           CallSearch(query, top_k, mv, mt)
    \/ StartSearch
    \/ \E kind \in Backends : SearchEmbedResume(kind)
    \/ CompleteSearch
    \/ SetAbort
    \/ AbortWins

Spec == Init /\ [][Next]_vars

(***************************************************************************)
(* combine_vector_id and split_vector_id applied to every pair of indices  *)
(* up to one past the half-word range.                                     *)
(***************************************************************************)
IdInputs == 0..Pow2(HalfBits)

IdInit ==
    /\ NoHandle
    /\ disk = NoFile
    /\ probe \in [file_index : IdInputs, document_index : IdInputs, id : {0},
                  split : {<<0, 0>>}, step : {"input"}]

\* let id = combine_vector_id(file_index, document_index)
IdCombine ==
    /\ probe.step = "input"
    /\ probe' = [probe EXCEPT
                    !.id = combine_vector_id(probe.file_index, probe.document_index),
                    !.step = "combined"]
    /\ UNCHANGED <<name, data, hnsw, bm25, disk, writes, op, pc, ap, sq, out, pre,
                   aborted, winner, ret, msgs, calls, used, arg1, lastOk, spinner>>

\* let (file_index, document_index) = split_vector_id(id)
IdSplit ==
    /\ probe.step = "combined"
    /\ probe' = [probe EXCEPT !.split = split_vector_id(probe.id),
                              !.step = "split"]
    /\ UNCHANGED <<name, data, hnsw, bm25, disk, writes, op, pc, ap, sq, out, pre,
                   aborted, winner, ret, msgs, calls, used, arg1, lastOk, spinner>>

IdNext ==
    \/ IdCombine
    \/ IdSplit

IdSpec == IdInit /\ [][IdNext]_vars

(***************************************************************************)
(* Rag::create_embeddings run on its own, over every short list of texts   *)
(* and every small batch size, against a backend that may answer each      *)
(* request well, with an error, or with a vector too few.                  *)
(***************************************************************************)
\* texts handed to one run
MaxTexts == 4

EmbedTexts == SeqsUpTo({"a0", "a1", "b0"}, MaxTexts)

\* values of model.max_concurrent_chunks()
BatchSizes == 1..(MaxConcurrentChunks + 1)

EmbedInit ==
    /\ NoHandle
    /\ disk = NoFile
    /\ probe \in [texts : EmbedTexts, size : BatchSizes, output : {<<>>},
                  batch : {0}, sent : {<<>>}, recv : {<<>>}, step : {"input"}]

\* create_embeddings is called and runs to its first await, or to its end
\* when there is nothing to embed
EmbedCall ==
    /\ probe.step = "input"
    /\ probe' = LET run == EmbedBegin(probe, probe.size)
                IN  [run EXCEPT !.step = IF run.sent = <<>> THEN "Ok" ELSE "await"]
    /\ UNCHANGED <<name, data, hnsw, bm25, disk, writes, op, pc, ap, sq, out, pre,
                   aborted, winner, ret, msgs, calls, used, arg1, lastOk, spinner>>

\* the backend answers the outstanding request
EmbedAnswer(kind) ==
    /\ probe.step = "await"
    /\ probe' = LET run == EmbedReceive(probe, kind, probe.size)
                IN  [run EXCEPT !.step =
                        IF kind = "err" THEN "Err"
                        ELSE IF Len(run.sent) > Len(run.recv) THEN "await"
                        ELSE "Ok"]
    /\ UNCHANGED <<name, data, hnsw, bm25, disk, writes, op, pc, ap, sq, out, pre,
                   aborted, winner, ret, msgs, calls, used, arg1, lastOk, spinner>>

EmbedNext ==
    \/ EmbedCall
    \/ \E kind \in Backends : EmbedAnswer(kind)

EmbedSpec == EmbedInit /\ [][EmbedNext]_vars

(***************************************************************************)
(* reciprocal_rank_fusion run on its own, over every pair of short ranked  *)
(* lists, with the HashMap free to hand its entries out in any order.      *)
(***************************************************************************)
\* length of a ranked list, and the largest top_k
MaxRank == 3

FusionIds == {10, 20, 40}

FusionLists == SeqsUpTo(FusionIds, MaxRank)

\* (vector_search_weight, text_search_weight)
FusionWeights == {<<1, 1>>, <<2, 1>>}

\* V = [10, 20, 30], T = [20, 40, 10], weights 1.0, top_k = 3
FusionExample ==
    [V |-> <<10, 20, 30>>, T |-> <<20, 40, 10>>, weights |-> <<1, 1>>, top_k |-> 3,
     keys |-> {}, order |-> <<>>, ids |-> <<>>, step |-> "input"]

FusionInit ==
    /\ NoHandle
    /\ disk = NoFile
    /\ probe \in [V : FusionLists, T : FusionLists, weights : FusionWeights,
                  top_k : 1..MaxRank, keys : {{}}, order : {<<>>}, ids : {<<>>},
                  step : {"input"}]
                 \cup {FusionExample}

\* the two accumulation loops (564-570) have filled the map
FusionAccumulate ==
    /\ probe.step = "input"
    /\ probe' = [probe EXCEPT !.keys = Range(probe.V) \cup Range(probe.T),
                              !.step = "map"]
    /\ UNCHANGED <<name, data, hnsw, bm25, disk, writes, op, pc, ap, sq, out, pre,
                   aborted, winner, ret, msgs, calls, used, arg1, lastOk, spinner>>

\* map.into_iter() hands the entries out in some order; sort, take (571-578)
FusionCollect ==
    /\ probe.step = "map"
    /\ \E order \in Orders(probe.keys) :
           probe' = [probe EXCEPT
                        !.order = order,
                        !.ids = reciprocal_rank_fusion(probe.V, probe.T,
                                    probe.weights[1], probe.weights[2],
                                    probe.top_k, order),
                        !.step = "done"]
    /\ UNCHANGED <<name, data, hnsw, bm25, disk, writes, op, pc, ap, sq, out, pre,
                   aborted, winner, ret, msgs, calls, used, arg1, lastOk, spinner>>

FusionNext ==
    \/ FusionAccumulate
    \/ FusionCollect

FusionSpec == FusionInit /\ [][FusionNext]_vars

(***************************************************************************)
(* Rag::config followed by RagData::new, as init runs them, over every     *)
(* small setting of the configuration and every answer to the prompts.     *)
(***************************************************************************)
\* the largest chunk size and overlap configured or typed in
MaxChunkSize == 2

\* Option<usize>: None, or Some(v) for v in S
Options(S) ==
    {[some |-> FALSE, value |-> 0]} \cup {[some |-> TRUE, value |-> v] : v \in S}

\* Option<String> for config.rag_embedding_model
ModelOptions ==
    {[some |-> FALSE, value |-> ""], [some |-> TRUE, value |-> "embed-1"],
     [some |-> TRUE, value |-> "gone"]}

\* Model::retrieve_embedding: the configured embedding models are known
retrieve_embedding(models, model_id) == \E i \in 1..Len(models) : models[i] = model_id

\* Rag::config (105-165) on the settings c: c.terminal is IS_STDOUT_TERMINAL,
\* c.typed_size and c.typed_overlap are what the user answers to the prompts
\* (the validators accept every integer)
config(c) ==
    LET no_model == ~c.rag_embedding_model.some /\ c.models = <<>>
        model_id == IF c.rag_embedding_model.some THEN c.rag_embedding_model.value
                    ELSE IF c.models = <<>> THEN ""
                    ELSE c.models[1]
        chunk_size == IF c.rag_chunk_size.some THEN c.rag_chunk_size.value
                      ELSE IF c.terminal THEN c.typed_size
                      ELSE c.default_chunk_size
        chunk_overlap == IF c.rag_chunk_overlap.some THEN c.rag_chunk_overlap.value
                         ELSE IF c.terminal THEN c.typed_overlap
                         ELSE chunk_size \div 20
    IN  IF no_model
        THEN [ok |-> FALSE, err |-> "No available embedding model", model |-> "",
              chunk_size |-> 0, chunk_overlap |-> 0]
        ELSE IF ~retrieve_embedding(c.models, model_id)
        THEN [ok |-> FALSE, err |-> "Unknown embedding model", model |-> "",
              chunk_size |-> 0, chunk_overlap |-> 0]
        ELSE [ok |-> TRUE, err |-> "", model |-> model_id,
              chunk_size |-> chunk_size, chunk_overlap |-> chunk_overlap]

ConfigInit ==
    /\ NoHandle
    /\ disk = NoFile
    /\ probe \in [rag_embedding_model : ModelOptions,
                  models : {<<>>, <<"embed-1">>},
                  rag_chunk_size : Options(0..MaxChunkSize),
                  rag_chunk_overlap : Options(0..MaxChunkSize),
                  terminal : BOOLEAN,
                  typed_size : 0..MaxChunkSize,
                  typed_overlap : 0..MaxChunkSize,
                  default_chunk_size : {MaxChunkSize},
                  result : {config([rag_embedding_model |-> [some |-> FALSE, value |-> ""],
                                    models |-> <<>>])},
                  data : {NoData},
                  step : {"input"}]

\* let (model, chunk_size, chunk_overlap) = Self::config(config)? (54)
ConfigCall ==
    /\ probe.step = "input"
    /\ probe' = LET r == config(probe)
                IN  [probe EXCEPT !.result = r,
                                  !.step = IF r.ok THEN "config" ELSE "failed"]
    /\ UNCHANGED <<name, data, hnsw, bm25, disk, writes, op, pc, ap, sq, out, pre,
                   aborted, winner, ret, msgs, calls, used, arg1, lastOk, spinner>>

\* let data = RagData::new(&model.id(), chunk_size, chunk_overlap) (55)
ConfigNew ==
    /\ probe.step = "config"
    /\ probe' = [probe EXCEPT
                    !.data = RagDataNew(probe.result.model, probe.result.chunk_size,
                                        probe.result.chunk_overlap),
                    !.step = "created"]
    /\ UNCHANGED <<name, data, hnsw, bm25, disk, writes, op, pc, ap, sq, out, pre,
                   aborted, winner, ret, msgs, calls, used, arg1, lastOk, spinner>>

ConfigNext ==
    \/ ConfigCall
    \/ ConfigNew

ConfigSpec == ConfigInit /\ [][ConfigNext]_vars

(***************************************************************************)
(* The tail of Rag::hybird_search (310-320) run on its own: the fusion of  *)
(* two id lists and the lookup of the fused ids in the files, over lists   *)
(* that also hold ids with no chunk behind them.                           *)
(***************************************************************************)
\* length of each of the two id lists, and the largest top_k
MaxHits == 2

\* the files of the store searched: a.md with two chunks, b.txt with one
HybridFiles == LoadFiles(TreeFiles, Len(TreeFiles))

\* ids of chunks that exist, one with its chunk index out of range, one with
\* its file index out of range
HybridIds ==
    {combine_vector_id(0, 0), combine_vector_id(1, 0), combine_vector_id(0, 2),
     combine_vector_id(2, 0)}

HybridInit ==
    /\ NoHandle
    /\ disk = NoFile
    /\ probe \in [vector_search_ids : SeqsUpTo(HybridIds, MaxHits),
                  text_search_ids : SeqsUpTo(HybridIds, MaxHits),
                  top_k : 1..MaxHits, ids : {<<>>}, output : {<<>>},
                  step : {"input"}]

\* let ids = reciprocal_rank_fusion(.., 1.0, 1.0, top_k) (310)
HybridFuse ==
    /\ probe.step = "input"
    /\ \E order \in Orders(Range(probe.vector_search_ids)
                            \cup Range(probe.text_search_ids)) :
           probe' = [probe EXCEPT
                        !.ids = reciprocal_rank_fusion(probe.vector_search_ids,
                                    probe.text_search_ids, 1, 1, probe.top_k, order),
                        !.step = "fused"]
    /\ UNCHANGED <<name, data, hnsw, bm25, disk, writes, op, pc, ap, sq, out, pre,
                   aborted, winner, ret, msgs, calls, used, arg1, lastOk, spinner>>

\* the filter_map over the fused ids, then Ok(output) (311-320)
HybridCollect ==
    /\ probe.step = "fused"
    /\ probe' = [probe EXCEPT !.output = Materialize(probe.ids, HybridFiles),
                              !.step = "Ok"]
    /\ UNCHANGED <<name, data, hnsw, bm25, disk, writes, op, pc, ap, sq, out, pre,
                   aborted, winner, ret, msgs, calls, used, arg1, lastOk, spinner>>

HybridNext ==
    \/ HybridFuse
    \/ HybridCollect

HybridSpec == HybridInit /\ [][HybridNext]_vars

(***************************************************************************)
(* Model::total_tokens and Model::max_input_tokens_limit                   *)
(* (client/model.rs 161-194) over every short conversation and every       *)
(* small limit.                                                            *)
(***************************************************************************)
PER_MESSAGES_TOKENS == 5

BASIS_TOKENS == 2

\* messages of a conversation
MaxMessages == 2

\* estimate_token_length of the text of one message
MaxTextTokens == 1

\* the largest max_input_tokens a model declares
MaxInputTokens == 15

\* a Message: its role, whether its content is Text or Array, and what
\* estimate_token_length makes of its text
Messages ==
    [role : {"user", "assistant"}, is_text : BOOLEAN, length : 0..MaxTextTokens]

\* Model::messages_tokens (161-171)
messages_tokens(messages) ==
    LET f[n \in 0..Len(messages)] ==
            IF n = 0 THEN 0
            ELSE f[n - 1] + (IF messages[n].is_text THEN messages[n].length ELSE 0)
    IN  f[Len(messages)]

\* Model::total_tokens (173-184)
total_tokens(messages) ==
    IF messages = <<>> THEN 0
    ELSE LET num_messages == Len(messages)
             message_tokens == messages_tokens(messages)
         IN  IF messages[num_messages].role = "user"
             THEN num_messages * PER_MESSAGES_TOKENS + message_tokens
             ELSE (num_messages - 1) * PER_MESSAGES_TOKENS + message_tokens

\* Model::max_input_tokens_limit (186-194)
max_input_tokens_limit(max_input_tokens, messages) ==
    LET total == total_tokens(messages) + BASIS_TOKENS
    IN  IF max_input_tokens.some /\ total >= max_input_tokens.value
        THEN "Exceed max input tokens limit"
        ELSE "Ok"

TokenInit ==
    /\ NoHandle
    /\ disk = NoFile
    /\ probe \in [messages : SeqsUpTo(Messages, MaxMessages),
                  max_input_tokens : Options(0..MaxInputTokens),
                  total_tokens : {0}, result : {""}, step : {"input"}]

\* let total_tokens = self.total_tokens(messages) + BASIS_TOKENS (187)
TokenTotal ==
    /\ probe.step = "input"
    /\ probe' = [probe EXCEPT
                    !.total_tokens = total_tokens(probe.messages) + BASIS_TOKENS,
                    !.step = "total"]
    /\ UNCHANGED <<name, data, hnsw, bm25, disk, writes, op, pc, ap, sq, out, pre,
                   aborted, winner, ret, msgs, calls, used, arg1, lastOk, spinner>>

\* the comparison with the limit and the return (188-193)
TokenLimit ==
    /\ probe.step = "total"
    /\ probe' = [probe EXCEPT
                    !.result = max_input_tokens_limit(probe.max_input_tokens,
                                                      probe.messages),
                    !.step = "done"]
    /\ UNCHANGED <<name, data, hnsw, bm25, disk, writes, op, pc, ap, sq, out, pre,
                   aborted, winner, ret, msgs, calls, used, arg1, lastOk, spinner>>

TokenNext ==
    \/ TokenTotal
    \/ TokenLimit

TokenSpec == TokenInit /\ [][TokenNext]_vars

(***************************************************************************)
(* render_stream (render.rs 13-43, render/mod.rs 13-43): the loop that     *)
(* takes the ReplyStreamEvents of a producer off a channel and prints      *)
(* them, with the producer and the ctrlc flag as its environment.  A       *)
(* string is the sequence of its characters.                               *)
(***************************************************************************)
\* events a producer sends before it finishes
MaxEvents == 2

NL == "\n"

\* the escape sequence that opens a highlighted range
ESC == "\\e"

\* the texts a producer sends
Texts == {<<"a">>, <<"b", NL>>, <<NL, "c">>, <<"d", NL, "e", NL>>}

\* str::contains('\n')
ContainsNL(text) == \E i \in 1..Len(text) : text[i] = NL

\* str::split('\n'): the pieces between the newlines, empty ones included
RECURSIVE SplitLines(_)
SplitLines(text) ==
    IF ~ContainsNL(text) THEN <<text>>
    ELSE LET i == CHOOSE k \in 1..Len(text) :
                      text[k] = NL /\ \A j \in 1..(k - 1) : text[j] # NL
         IN  <<SubSeq(text, 1, i - 1)>> \o SplitLines(SubSeq(text, i + 1, Len(text)))

\* [String]::join("\n")
RECURSIVE JoinLines(_)
JoinLines(lines) ==
    IF lines = <<>> THEN <<>>
    ELSE IF Len(lines) = 1 THEN lines[1]
    ELSE lines[1] \o <<NL>> \o JoinLines(Tail(lines))

\* MarkdownRender::render_line: the line with its highlighted ranges
\* escaped; a line without characters has no range
render_line(line) == IF line = <<>> THEN <<>> ELSE <<ESC>> \o line

\* MarkdownRender::render (67-72)
render(src) ==
    LET lines == SplitLines(src)
    IN  JoinLines([i \in 1..Len(lines) |-> render_line(lines[i])])

\* utils::dump: the text, then so many newlines, onto the terminal
dump(screen, text, newlines) == screen \o text \o [i \in 1..newlines |-> NL]

TextEvent(text) == [kind |-> "Text", text |-> text]

DoneEvent == [kind |-> "Done", text |-> <<>>]

\* the Text arm of the match (22-32)
OnText(p, text) ==
    IF ContainsNL(text)
    THEN LET joined == p.buffer \o text
             all == SplitLines(joined)
             lines == SubSeq(all, 1, Len(all) - 1)
             output == JoinLines(lines)
         IN  [p EXCEPT !.buffer = all[Len(all)],
                       !.screen = dump(p.screen, render(output), 1)]
    ELSE [p EXCEPT !.buffer = p.buffer \o text]

\* the Done arm of the match (33-37)
OnDone(p) ==
    [p EXCEPT !.screen = dump(p.screen, render(p.buffer), 2), !.step = "returned"]

RenderInit ==
    /\ NoHandle
    /\ disk = NoFile
    /\ probe = [queue |-> <<>>, sender |-> "alive", sends |-> 0, ctrlc |-> FALSE,
                buffer |-> <<>>, screen |-> <<>>, received |-> <<>>,
                step |-> "loop", last |-> "none"]

\* the producer sends a Text
SendText(text) ==
    /\ probe.sender = "alive"
    /\ probe.sends < MaxEvents
    /\ probe' = [probe EXCEPT !.queue = Append(@, TextEvent(text)),
                              !.sends = @ + 1]
    /\ UNCHANGED <<name, data, hnsw, bm25, disk, writes, op, pc, ap, sq, out, pre,
                   aborted, winner, ret, msgs, calls, used, arg1, lastOk, spinner>>

\* the producer sends Done and finishes
SendDone ==
    /\ probe.sender = "alive"
    /\ probe' = [probe EXCEPT !.queue = Append(@, DoneEvent),
                              !.sender = "done"]
    /\ UNCHANGED <<name, data, hnsw, bm25, disk, writes, op, pc, ap, sq, out, pre,
                   aborted, winner, ret, msgs, calls, used, arg1, lastOk, spinner>>

\* the producer ends without a Done: the last Sender is dropped
DropSender ==
    /\ probe.sender = "alive"
    /\ probe' = [probe EXCEPT !.sender = "dropped"]
    /\ UNCHANGED <<name, data, hnsw, bm25, disk, writes, op, pc, ap, sq, out, pre,
                   aborted, winner, ret, msgs, calls, used, arg1, lastOk, spinner>>

\* the ctrl-c handler stores true in the flag
SetCtrlc ==
    /\ ~probe.ctrlc
    /\ probe' = [probe EXCEPT !.ctrlc = TRUE]
    /\ UNCHANGED <<name, data, hnsw, bm25, disk, writes, op, pc, ap, sq, out, pre,
                   aborted, winner, ret, msgs, calls, used, arg1, lastOk, spinner>>

\* one turn of the loop (16-40): the flag is read, then try_recv; an Err of
\* try_recv, for an empty or for a disconnected channel, is not looked at
RenderLoop ==
    /\ probe.step = "loop"
    /\ probe' =
           IF probe.ctrlc THEN [probe EXCEPT !.step = "returned", !.last = "ctrlc"]
           ELSE IF probe.queue = <<>> THEN probe
           ELSE LET evt == Head(probe.queue)
                    p == [probe EXCEPT !.queue = Tail(@), !.last = evt.kind]
                IN  IF evt.kind = "Text"
                    THEN OnText([p EXCEPT !.received = Append(@, evt.text)], evt.text)
                    ELSE OnDone(p)
    /\ UNCHANGED <<name, data, hnsw, bm25, disk, writes, op, pc, ap, sq, out, pre,
                   aborted, winner, ret, msgs, calls, used, arg1, lastOk, spinner>>

RenderNext ==
    \/ \E text \in Texts : SendText(text)
    \/ SendDone
    \/ DropSender
    \/ SetCtrlc
    \/ RenderLoop

\* the thread that runs render_stream keeps running
RenderSpec == RenderInit /\ [][RenderNext]_vars /\ WF_vars(RenderLoop)

(***************************************************************************)
(* Properties of the store.                                                *)
(***************************************************************************)
\* the ids of the chunks of a RagData, by position
ChunkIds(d) == {e[1] : e \in Range(EnumerateChunks(d.files))}

KeysMatchFiles(d) == Keys(d.vectors) = ChunkIds(d)

\* add_paths has returned Ok after handing RagData::add as many vectors as ids
AddedInStep ==
    /\ pc = "returned"
    /\ ret = "Ok"
    /\ ap.added
    /\ Len(ap.output) = Len(ap.vector_ids)

IsError(r) == r \notin {"Ok", "none"}

\* C1: after a successful add_paths whose backend answered every request
\* with one vector per text, on a store whose vector keys were exactly the
\* ids of its chunks, the vector keys are again exactly the ids of the chunks
\* of RagData.files.
C1_KeysEqualChunkIds ==
    (AddedInStep /\ KeysMatchFiles(pre.data)) => KeysMatchFiles(data)

\* C2: whenever the handle is at rest (after load, after init, after any
\* add_paths), the BM25 corpus is the one built from the current files.
C2_Bm25IndexesFiles ==
    pc = "idle" => bm25 = build_bm25(data)

\* C3: whenever a handle exists, the HNSW index holds exactly the (vector,
\* id) pairs of RagData.vectors, in the iteration order of the mapping.
C3_HnswHoldsVectors ==
    name # "none" => hnsw = build_hnsw(data)

\* a successful add_paths has added vectors to a store that held some
C3_Witness ==
    /\ AddedInStep
    /\ pre.data.vectors # <<>>
    /\ data.vectors # pre.data.vectors
    /\ hnsw # pre.hnsw

\* C4: no two entries of RagData.files have the same path.
C4_PathsDistinct ==
    \A i, j \in 1..Len(data.files) :
        data.files[i].path = data.files[j].path => i = j

\* C5: when the previous operation was a successful add_paths([p]) and
\* add_paths([p]) has now returned Ok again, data and both indices are what
\* they were before this second call.
C5_SecondIngestIsNoOp ==
    (pc = "returned" /\ op = "add_paths" /\ arg1 # "none" /\ lastOk = arg1
        /\ ret = "Ok")
    => Store = pre

\* C6: when add_paths returns an error, data, hnsw and bm25 are what they
\* were when it was called.
C6_ErrorLeavesStore ==
    (pc = "returned" /\ IsError(ret)) => Store = pre

\* an embedding request has failed after an earlier one of the same call had
\* succeeded, on a store that held files
C6_Witness ==
    /\ pc = "returned"
    /\ ret = "Failed to create embedding"
    /\ ap.output # <<>>
    /\ data.files # <<>>

\* C7: RagData::add is only ever called with as many vectors as ids (a
\* backend answer of another length makes add_paths fail instead).
C7_AddGetsOneVectorPerId ==
    (pc = "returned" /\ ap.added) => Len(ap.vector_ids) = Len(ap.output)

\* C8: when the abort branch of the select! of init or search completed,
\* the call returns the error "Aborted!" and the work future is gone.
C8_AbortReturnsAborted ==
    winner = "abort" =>
        /\ pc = "done"
        /\ ret = "Aborted!"
        /\ ap = NoLocals
        /\ sq = NoSearch

\* init was aborted while an embedding request of its add_paths was pending
C8_Witness ==
    /\ winner = "abort"
    /\ op = "init"
    /\ \E i \in 1..Len(msgs) : msgs[i].kind = "Creating embeddings"

\* C9: at every suspension point of add_paths the store is what it was
\* when the call began, and whenever the data differ from what they were at
\* the call, add_paths has returned Ok, the whole batch is in (all its files
\* and the zipped vectors) and the vector index is rebuilt from it.
C9_BatchIsAtomic ==
    /\ (op \in {"init", "add_paths"} /\ Suspended) => Store = pre
    /\ data # pre.data =>
          /\ pc \in {"returned", "done"}
          /\ pc = "returned" => ret = "Ok"
          /\ ap.added
          /\ data = RagDataAdd(pre.data, ap.rag_files, ap.vector_ids, ap.output)
          /\ hnsw = build_hnsw(data)

\* add_paths is suspended in its second embedding request, the answer to the
\* first one in hand, on a store that holds files
C9_Witness ==
    /\ pc = "embed"
    /\ ap.batch = 1
    /\ ap.output # <<>>
    /\ data.files # <<>>

\* C10: no step taken on a handle named "temp" creates the snapshot file.
C10_TempNeverWritten ==
    [][is_temp(name) => writes' = writes]_vars

\* C11: while init runs, the snapshot file is created or changed only by the
\* step that follows an add_paths that returned Ok on a handle not named
\* "temp", and then it holds the data of the handle; when init ends otherwise
\* (config error, add_paths error, abort branch) it returns an error and the
\* file is as it was.
C11_InitSavesOnlyAfterOk ==
    [][(op = "init" \/ op' = "init") =>
          /\ (disk' # disk \/ writes' # writes) =>
                /\ pc = "returned"
                /\ ret = "Ok"
                /\ ~is_temp(name)
                /\ disk' = File(data)
          /\ (pc # "done" /\ pc' = "done" /\ ~(pc = "returned" /\ ret = "Ok")) =>
                /\ IsError(ret')
                /\ disk' = disk
                /\ writes' = writes]_vars

\* init on a name other than "temp" has ingested files and written them
C11_Witness ==
    /\ op = "init"
    /\ pc = "done"
    /\ ret = "Ok"
    /\ ~is_temp(name)
    /\ writes = 1
    /\ data.files # <<>>
    /\ disk = File(data)

\* C12: for all indices f and c below 2^(usize::BITS / 2),
\* split_vector_id(combine_vector_id(f, c)) = (f, c), and the id is
\* f * 2^(usize::BITS / 2) + c: f in the high half word, c in the low one.
C12_SplitInvertsCombine ==
    (/\ probe.step = "split"
     /\ probe.file_index < Pow2(HalfBits)
     /\ probe.document_index < Pow2(HalfBits))
    => /\ probe.split = <<probe.file_index, probe.document_index>>
       /\ probe.id = probe.file_index * Pow2(HalfBits) + probe.document_index

\* the largest indices of the range went through combine and split
C12_Witness ==
    /\ probe.step = "split"
    /\ probe.file_index = Pow2(HalfBits) - 1
    /\ probe.document_index = Pow2(HalfBits) - 1
    /\ probe.id = Pow2(UsizeBits) - 1

AllAnswersFull == \A i \in 1..Len(probe.recv) : probe.recv[i] = "ok"

\* the least k with k * size >= n
CeilDiv(n, size) == CHOOSE k \in 0..n : k * size >= n /\ \A j \in 0..(k - 1) : j * size < n

\* C14: when create_embeddings returns Ok and the backend answered every
\* request with one vector per text in request order, the output has as many
\* vectors as there were texts and its j-th vector is the embedding of
\* texts[j], whatever the number of texts and the batch size.
C14_OutputFollowsInput ==
    (probe.step = "Ok" /\ AllAnswersFull) =>
        /\ Len(probe.output) = Len(probe.texts)
        /\ \A j \in 1..Len(probe.texts) : probe.output[j] = Embedding(probe.texts[j])

\* three different texts went out in a batch of two and a batch of one
C14_Witness ==
    /\ probe.step = "Ok"
    /\ AllAnswersFull
    /\ probe.texts = <<"a0", "a1", "b0">>
    /\ probe.size = 2
    /\ Len(probe.recv) = 2

\* C15: in a run of create_embeddings over n texts with batch size B, the
\* i-th request carries texts[i*B .. min((i+1)*B, n)] (i from 0), a request
\* is issued only when every earlier one has been answered, no request
\* follows a failed one, and a run that ends Ok has issued exactly ceil(n/B)
\* requests.
C15_RequestsInSequence ==
    LET n == Len(probe.texts)
        B == probe.size
    IN  probe.step # "input" =>
            /\ Len(probe.sent) - Len(probe.recv) \in {0, 1}
            /\ probe.step = "await" <=> Len(probe.sent) = Len(probe.recv) + 1
            /\ \A i \in 1..Len(probe.sent) :
                    probe.sent[i] =
                        [j \in 1..(Min(i * B, n) - (i - 1) * B) |->
                            probe.texts[(i - 1) * B + j]]
            /\ \A k \in 1..Len(probe.recv) :
                    probe.recv[k] = "err" =>
                        /\ k = Len(probe.recv)
                        /\ k = Len(probe.sent)
                        /\ probe.step = "Err"
            /\ Len(probe.sent) <= CeilDiv(n, B)
            /\ probe.step = "Ok" => Len(probe.sent) = CeilDiv(n, B)

\* the second of three requests has failed and the run has ended there
C15_Witness ==
    /\ probe.step = "Err"
    /\ Len(probe.texts) = 3
    /\ probe.size = 1
    /\ probe.recv = <<"ok", "err">>
    /\ Len(probe.sent) = 2

\* the denominators rrf_k + 1 .. rrf_k + n multiplied up
Denominators(rrf_k, n) ==
    LET f[i \in 0..n] == IF i = 0 THEN 1 ELSE (rrf_k + i) * f[i - 1]
    IN  f[n]

\* the sum of weight / (rrf_k + i + 1) over the zero-based positions i of x
\* in ids, as a multiple of 1 / unit
PositionSum(ids, x, weight, rrf_k, unit) ==
    LET f[n \in 0..Len(ids)] ==
            IF n = 0 THEN 0
            ELSE f[n - 1] + (IF ids[n] = x THEN weight * (unit \div (rrf_k + n)) ELSE 0)
    IN  f[Len(ids)]

\* the fused score of x for the lists and weights under test
FusedScore(x) ==
    LET rrf_k == 2 * probe.top_k
        unit == Denominators(rrf_k, Len(probe.V) + Len(probe.T))
    IN  PositionSum(probe.V, x, probe.weights[1], rrf_k, unit)
        + PositionSum(probe.T, x, probe.weights[2], rrf_k, unit)

\* C16: reciprocal_rank_fusion returns at most top_k ids, no id twice, each
\* from V or T, in non-increasing order of fused score (the sum of
\* w / (2 * top_k + i + 1) over every position i of the id in each list), and
\* no id it leaves out has a higher fused score than one it returns.
C16_FusionRanksByScore ==
    probe.step = "done" =>
        LET ids == probe.ids
        IN  /\ Len(ids) <= probe.top_k
            /\ \A i, j \in 1..Len(ids) : ids[i] = ids[j] => i = j
            /\ \A i \in 1..Len(ids) : ids[i] \in Range(probe.V) \cup Range(probe.T)
            /\ \A i, j \in 1..Len(ids) :
                    i < j => FusedScore(ids[i]) >= FusedScore(ids[j])
            /\ \A x \in (Range(probe.V) \cup Range(probe.T)) \ Range(ids) :
                    \A i \in 1..Len(ids) : FusedScore(x) <= FusedScore(ids[i])

\* the lists V = [10, 20, 30], T = [20, 40, 10] with top_k = 3 came out as
\* [20, 10, 40], the id 30 cut off
C16_Witness ==
    /\ probe.step = "done"
    /\ probe.V = <<10, 20, 30>>
    /\ probe.T = <<20, 40, 10>>
    /\ probe.ids = <<20, 10, 40>>

\* the ids of a list in order of first appearance
FirstSeen(ids) ==
    LET f[n \in 0..Len(ids)] ==
            IF n = 0 THEN <<>>
            ELSE IF ids[n] \in Range(f[n - 1]) THEN f[n - 1]
            ELSE Append(f[n - 1], ids[n])
    IN  f[Len(ids)]

\* C17: the result of the fusion is a function of V, T, the weights and
\* top_k alone: the ids by descending fused score, ids of equal score in
\* the order of their first appearance in V followed by T.
C17_FusionDeterministic ==
    probe.step = "done" =>
        probe.ids = reciprocal_rank_fusion(probe.V, probe.T, probe.weights[1],
                        probe.weights[2], probe.top_k, FirstSeen(probe.V \o probe.T))

\* C18: when search returns Ok, every HNSW hit whose id vector_search has
\* passed on to the fusion has a cosine similarity to its sub-query of at
\* least min_score_vector.
C18_HitsAtLeastMinScore ==
    (pc = "done" /\ op = "search" /\ ret = "Ok") =>
        \A i \in 1..Len(sq.hits) : Similarity(sq.hits[i]) >= sq.min_score_vector

\* the keys of RagData.vectors in iteration order
KeyOrder(d) == [i \in 1..Len(d.vectors) |-> d.vectors[i][1]]

\* the ids of the chunks of RagData.files, file by file, chunk by chunk
ChunkOrder(d) ==
    LET pairs == EnumerateChunks(d.files)
    IN  [i \in 1..Len(pairs) |-> pairs[i][1]]

\* C19: after a successful add_paths (one vector per text) on a store whose
\* vectors were in the order of its chunks, the (id, vector) pairs of the
\* batch stand behind all earlier pairs, and the vectors are again in the
\* order of the chunks of RagData.files.
C19_VectorsInChunkOrder ==
    (AddedInStep /\ KeyOrder(pre.data) = ChunkOrder(pre.data)) =>
        /\ data.vectors = pre.data.vectors \o Zip(ap.vector_ids, ap.output)
        /\ KeyOrder(data) = ChunkOrder(data)

\* what hybird_search makes of the store s for the arguments and embeddings
\* in l, the map of the fusion iterated in the given order
ResultOn(s, l, order) ==
    LET V == FilterHits([i \in 1..Len(l.output) |->
                            Neighbours(s.hnsw, l.output[i], l.top_k)],
                        l.min_score_vector)
        T == bm25_search(s.bm25, l.query, l.top_k, l.min_score_text)
    IN  Materialize(reciprocal_rank_fusion(V, T, 1, 1, l.top_k, order), s.data.files)

C21_OverlapBelowSize ==
    probe.step = "created" => probe.data.chunk_overlap < probe.data.chunk_size

\* the id resolves in the files fs to a chunk with the given text
ResolvesTo(fs, id, text) ==
    LET fc == split_vector_id(id)
    IN  /\ fc[1] < Len(fs)
        /\ fc[2] < Len(fs[fc[1] + 1].documents)
        /\ fs[fc[1] + 1].documents[fc[2] + 1] = text

\* C22: when add_paths has called RagData::add (one vector per id), no id
\* of the batch was a key of the vectors before, each id resolves in the
\* files as they now are to the chunk whose text was embedded for it, and
\* every vector of the store is the embedding of the chunk its key
\* resolves to.
C22_IdsFreshAndResolve ==
    AddedInStep =>
        /\ \A i \in 1..Len(ap.vector_ids) :
                /\ ap.vector_ids[i] \notin Keys(pre.data.vectors)
                /\ ResolvesTo(data.files, ap.vector_ids[i], ap.texts[i])
        /\ \A i \in 1..Len(data.vectors) :
                \E text \in {"a0", "a1", "b0"} :
                    /\ data.vectors[i][2] = Embedding(text)
                    /\ ResolvesTo(data.files, data.vectors[i][1], text)

\* the page_content behind each of the first n ids that resolve in fs, in
\* the order of the ids
ResolvedTexts(ids, fs) ==
    LET f[n \in 0..Len(ids)] ==
            IF n = 0 THEN <<>>
            ELSE LET fc == split_vector_id(ids[n])
                 IN  IF fc[1] < Len(fs) /\ fc[2] < Len(fs[fc[1] + 1].documents)
                     THEN Append(f[n - 1], fs[fc[1] + 1].documents[fc[2] + 1])
                     ELSE f[n - 1]
    IN  f[Len(ids)]

\* C23: hybird_search returns Ok with at most top_k texts: for each fused
\* id, in fused order, the page_content at files[file_index].documents[
\* chunk_index], an id whose file or chunk index is out of range left out.
C23_TextsFollowFusedIds ==
    probe.step = "Ok" =>
        /\ Len(probe.ids) <= probe.top_k
        /\ Len(probe.output) <= probe.top_k
        /\ probe.output = ResolvedTexts(probe.ids, HybridFiles)

\* an id with no file behind it came first in the fusion and was skipped,
\* the chunk of the id behind it was returned
C23_Witness ==
    /\ probe.step = "Ok"
    /\ probe.ids = <<combine_vector_id(2, 0), combine_vector_id(1, 0)>>
    /\ probe.output = <<"b0">>

\* the phase a progress message belongs to
PhaseOf(m) ==
    CASE m.kind = "Listing paths" -> 0
      [] m.kind = "Loading files" -> 1
      [] m.kind = "Creating embeddings" -> 2
      [] m.kind = "Building vector store" -> 3

\* C24: the messages add_paths has sent so far start with "Listing paths",
\* sent once, and go through the phases listing, loading, embedding,
\* building without ever going back; "Building vector store" is the last
\* message and is sent only when every embedding request of the call has
\* been answered without error.
C24_ProgressInPhaseOrder ==
    /\ msgs # <<>> => msgs[1].kind = "Listing paths"
    /\ \A i, j \in 1..Len(msgs) : i < j =>
            /\ PhaseOf(msgs[i]) <= PhaseOf(msgs[j])
            /\ msgs[j].kind # "Listing paths"
    /\ \A i \in 1..Len(msgs) : msgs[i].kind = "Building vector store" =>
            /\ i = Len(msgs)
            /\ ap.added
            /\ Len(ap.recv) = ChunksLen(ap.texts, MaxConcurrentChunks)
            /\ \A k \in 1..Len(ap.recv) : ap.recv[k] # "err"

\* a run over two files and two embedding requests has sent all its messages
C24_Witness ==
    /\ pc = "returned"
    /\ ret = "Ok"
    /\ Len(ap.rag_files) = 2
    /\ Len(ap.recv) = 2
    /\ Len(msgs) = 8
    /\ msgs[Len(msgs)].kind = "Building vector store"

Counted(m) == m.kind \in {"Loading files", "Creating embeddings"}

\* C27: every "Loading files [i/N]" and "Creating embeddings [i/N]" message
\* sent has 1 <= i <= N, the counters of one phase never go down, and when
\* add_paths has returned Ok the last message of each phase has i = N.
C27_CountersWithinRange ==
    /\ \A k \in 1..Len(msgs) : Counted(msgs[k]) =>
            /\ 1 <= msgs[k].i
            /\ msgs[k].i <= msgs[k].n
    /\ \A k, l \in 1..Len(msgs) :
            (k < l /\ Counted(msgs[k]) /\ msgs[k].kind = msgs[l].kind) =>
                msgs[k].i <= msgs[l].i
    /\ (pc = "returned" /\ ret = "Ok") =>
            \A k \in 1..Len(msgs) :
                (/\ Counted(msgs[k])
                 /\ (k = Len(msgs) \/ msgs[k + 1].kind # msgs[k].kind)) =>
                    msgs[k].i = msgs[k].n

\* the messages that count 5 tokens each: all of them, the last one only
\* when its role is user
CountedMessages(messages) ==
    {i \in 1..Len(messages) : i < Len(messages) \/ messages[i].role = "user"}

\* the text tokens of the messages 1..n
TextTokens(messages, n) ==
    IF n = 0 THEN 0
    ELSE LET f[k \in 1..n] ==
                 (IF messages[k].is_text THEN messages[k].length ELSE 0)
                 + (IF k = 1 THEN 0 ELSE f[k - 1])
         IN  f[n]

\* C25: max_input_tokens_limit fails exactly when the model declares
\* max_input_tokens = m and the text tokens of the messages, plus 5 for each
\* message (the last only if its role is user), plus 2, are greater than m.
C25_LimitExactlyWhenExceeded ==
    probe.step = "done" =>
        LET total == TextTokens(probe.messages, Len(probe.messages))
                     + 5 * Cardinality(CountedMessages(probe.messages))
        IN  probe.result # "Ok"
            <=> (probe.max_input_tokens.some /\ total + 2 > probe.max_input_tokens.value)

\* the path p, absolutized, is the path of a file the store held when the
\* call was made
RecordedBefore(p) ==
    \E i \in 1..Len(pre.data.files) : pre.data.files[i].path = absolutize(p)

\* the call in flight had nothing new to ingest: its one input path was
\* already recorded, or its listing loop ran to the end without a file
NothingNew ==
    \/ arg1 # "none" /\ RecordedBefore(arg1)
    \/ ap.rest = <<>> /\ ap.file_paths = <<>>

\* C26: when add_paths has returned and found nothing new to ingest, it
\* returned Ok, sent no embedding request, and data, hnsw and bm25 are what
\* they were when it was called.
C26_NothingNewIsNoOp ==
    (pc = "returned" /\ op = "add_paths" /\ NothingNew)
    => /\ ret = "Ok"
       /\ ap.sent = <<>>
       /\ ~ap.added
       /\ Store = pre

\* add_paths([p]) for a recorded p has returned on a store that holds files
C26_Witness ==
    /\ pc = "returned"
    /\ op = "add_paths"
    /\ arg1 # "none"
    /\ RecordedBefore(arg1)
    /\ ret = "Ok"
    /\ data.files # <<>>

\* C28: when init has left its select! or search has finished, whichever
\* branch completed and whatever the work returned, the stop was sent on
\* stop_spinner_tx.
C28_StopSentOnEveryExit ==
    (pc = "done" /\ op \in {"init", "search"} /\ winner # "none")
    => spinner = "stopped"

\* the producer is through: it sent Done, or dropped its Sender without one,
\* or ctrl-c was pressed
ProducerFinished == probe.sender # "alive" \/ probe.ctrlc

\* C29: render_stream eventually returns once the producer has finished,
\* whether by a Done event, by the ctrlc flag, or by dropping every Sender
\* without a Done.
C29_RenderStreamReturns == ProducerFinished ~> (probe.step = "returned")

====
